---- MODULE Spec2Model ----
(***************************************************************************)
(* Model of the request-admission pipeline (src/proxy.ts) and of the       *)
(* KV-backed fixed-window rate limiter (src/lib/rate-limiter/index.ts).    *)
(*                                                                         *)
(* Paths, headers and cookie values are TLA+ strings; the string operators *)
(* below are the JavaScript ones the source uses (startsWith, slice,       *)
(* includes, toLowerCase, encodeURIComponent as URLSearchParams applies    *)
(* it), computed character by character.                                   *)
(***************************************************************************)
EXTENDS Integers, Sequences, FiniteSets, TLC

VARIABLES
    \* ---- admission pipeline (one request in flight) ----
    pc,               \* position of proxy(): "idle", "start", "session", "gate", "done"
    req,              \* the NextRequest being handled
    sessionSvc,       \* what auth.api.getSession answers for this request
    i18nResponse,     \* const i18nResponse  (proxy.ts:119)
    actualPath,       \* const actualPath    (proxy.ts:122)
    isAuthenticated,  \* let isAuthenticated (proxy.ts:125)
    sessionCalls,     \* number of getSession calls made for this request
    stages,           \* the stages this request went through, in order
    resp,             \* the response proxy() returned
    prevResp,         \* the response to the same request under prevSvc
    prevSvc,          \* the session answer of the previous submission
    fault,            \* the stage of this request at which a call throws, and what
    hops,             \* redirects of proxy() the client has followed to this request
    \* ---- rate limiter ----
    kvBound,          \* is env.KV bound (createCacheClient() non-null)
    now,              \* Date.now(), in milliseconds
    store,            \* the KV namespace: key -> entry
    call,             \* per caller: the checkRateLimit call in flight
    hist,             \* per key: the calls completed since the key was first used
    \* ---- withCache ----
    cacheKv,          \* the KV entry under the cached key
    source,           \* the data fn computes its result from (its version)
    wc,               \* per caller: the withCache call in flight
    writer,           \* the position of the writer of the source data
    inval,            \* the version at the last invalidation, and the calls made
                      \* (counted up to MaxCacheCalls)
    \* ---- Prisma client ----
    prismaClient,     \* let prismaClient (client.ts:15); 0 is null
    globalPrisma,     \* global.prisma (client.ts:12); 0 is undefined
    built,            \* the PrismaClient instances constructed so far
    served,           \* the createPrismaClient calls since the last reset
    \* ---- registration ----
    users,            \* the rows of the users table
    accounts,         \* the rows of the accounts table
    reg               \* per caller: the POST /api/register in flight

proxyVars == <<pc, req, sessionSvc, i18nResponse, actualPath, isAuthenticated,
               sessionCalls, stages, resp, prevResp, prevSvc, fault, hops>>
rateVars == <<kvBound, now, store, call, hist>>
cacheVars == <<cacheKv, source, wc, writer, inval>>
dbVars == <<prismaClient, globalPrisma, built, served>>
regVars == <<users, accounts, reg>>
libVars == <<cacheVars, dbVars, regVars>>
vars == <<proxyVars, rateVars, libVars>>

(***************************************************************************)
(* JavaScript string operations                                            *)
(***************************************************************************)

\* String.prototype.startsWith
StartsWith(s, p) == Len(s) >= Len(p) /\ SubSeq(s, 1, Len(p)) = p

\* String.prototype.slice(n), n >= 0
Slice(s, n) == SubSeq(s, n + 1, Len(s))

\* String.prototype.includes
Includes(s, sub) ==
    \E i \in 1..(Len(s) - Len(sub) + 1) : SubSeq(s, i, i + Len(sub) - 1) = sub

\* Lower-casing of one character (the letters requests of the model use)
LowerChar(c) ==
    CASE c = "E" -> "e"
      [] c = "N" -> "n"
      [] c = "F" -> "f"
      [] c = "R" -> "r"
      [] c = "U" -> "u"
      [] c = "S" -> "s"
      [] OTHER -> c

\* String.prototype.toLowerCase
RECURSIVE ToLowerCase(_)
ToLowerCase(s) ==
    IF s = "" THEN ""
    ELSE LowerChar(SubSeq(s, 1, 1)) \o ToLowerCase(Slice(s, 1))

\* URLSearchParams serialisation of a value: "/" is percent-encoded, letters
\* are kept.
RECURSIVE EncodeQueryValue(_)
EncodeQueryValue(s) ==
    IF s = "" THEN ""
    ELSE (IF SubSeq(s, 1, 1) = "/" THEN "%2F" ELSE SubSeq(s, 1, 1))
             \o EncodeQueryValue(Slice(s, 1))

(***************************************************************************)
(* Configuration: @/i18n/routing                                           *)
(***************************************************************************)

locales == <<"en", "fr">>
defaultLocale == "en"

(***************************************************************************)
(* Requests and responses                                                  *)
(***************************************************************************)

NoValue == ""          \* an absent header or cookie

SafeMethods == {"GET", "HEAD", "OPTIONS"}
UnsafeMethods == {"POST", "PUT", "PATCH", "DELETE"}
Methods == SafeMethods \cup UnsafeMethods

AllowedOrigin == "https://app.example"
OtherOrigin == "https://evil.example"
Origins == {NoValue, AllowedOrigin, OtherOrigin}

CookieTokens == {NoValue, "t1"}
HeaderTokens == {NoValue, "t1", "t2"}

AcceptLanguages == {NoValue, "fr-FR,en;q=0.9", "de,FR;q=0.8"}

PagePaths ==
    {"/", "/en", "/fr", "/login", "/en/login", "/fr/login", "/en/login/reset",
     "/register", "/fr/register", "/dashboard", "/en/dashboard",
     "/en//dashboard", "/fr/settings/profile", "/pricing", "/en/privacy",
     "/en/loginx", "/english", "/en/checkout/cancel", "/fr/checkout",
     "/api", "/en/api/health"}

ApiPaths == {"/api/posts", "/api/auth/session", "/api/health", "/api/"}

Paths == PagePaths \cup ApiPaths

Requests ==
    [method : Methods, pathname : Paths, csrfCookie : CookieTokens,
     csrfHeader : HeaderTokens, origin : Origins, acceptLanguage : AcceptLanguages]

SessionAnswers == {"found", "null", "throws"}

\* A response without a JSON body
NoBody == [error |-> NoValue, message |-> NoValue, stack |-> NoValue]

\* No response yet (a variable that holds a response before one is computed)
None ==
    [kind |-> "none", status |-> 0, location |-> NoValue,
     allowOrigin |-> NoValue, setCsrfCookie |-> FALSE, through |-> {},
     body |-> NoBody]

\* NextResponse.next()
ResponseNext ==
    [kind |-> "next", status |-> 200, location |-> NoValue,
     allowOrigin |-> NoValue, setCsrfCookie |-> FALSE, through |-> {},
     body |-> NoBody]

\* NextResponse.redirect(url)
ResponseRedirect(loc) ==
    [kind |-> "redirect", status |-> 307, location |-> loc,
     allowOrigin |-> NoValue, setCsrfCookie |-> FALSE, through |-> {},
     body |-> NoBody]

(***************************************************************************)
(* @/lib/security/cors and @/lib/security/csrf                             *)
(***************************************************************************)

allowedOrigins == {AllowedOrigin}

\* isPreflightRequest: an OPTIONS request that carries an Origin header
isPreflightRequest(r) == r.method = "OPTIONS" /\ r.origin # NoValue

\* handlePreflight: the terminal answer to a preflight, no body
handlePreflight(r) ==
    [kind |-> "preflight", status |-> 204, location |-> NoValue,
     allowOrigin |-> IF r.origin \in allowedOrigins THEN r.origin ELSE NoValue,
     setCsrfCookie |-> FALSE, through |-> {}, body |-> NoBody]

\* applyCorsHeaders: decorates when the Origin is present and permitted,
\* leaves the response as it is otherwise
applyCorsHeaders(r, response) ==
    [response EXCEPT
        !.allowOrigin = IF r.origin # NoValue /\ r.origin \in allowedOrigins
                        THEN r.origin ELSE @,
        !.through = @ \cup {"cors"}]

\* The double-submit check applied to every method
validateCsrfTokenAllMethods(r) ==
    r.csrfCookie # NoValue /\ r.csrfHeader = r.csrfCookie

\* validateCsrfToken: double submit, checked for unsafe methods only
validateCsrfToken(r) ==
    \/ r.method \in SafeMethods
    \/ (r.csrfCookie # NoValue /\ r.csrfHeader = r.csrfCookie)

\* ensureCsrfToken: issues a token cookie when the request carries none
ensureCsrfToken(r, response) ==
    [response EXCEPT
        !.setCsrfCookie = (r.csrfCookie = NoValue),
        !.through = @ \cup {"csrf"}]

\* csrfErrorResponse
csrfErrorResponse ==
    [kind |-> "csrfError", status |-> 403, location |-> NoValue,
     allowOrigin |-> NoValue, setCsrfCookie |-> FALSE, through |-> {},
     body |-> NoBody]

(***************************************************************************)
(* src/proxy.ts                                                            *)
(***************************************************************************)

\* locales.some(locale => pathname.startsWith(`/${locale}/`) || pathname === `/${locale}`)
hasLocale(pathname) ==
    \E i \in DOMAIN locales :
        \/ StartsWith(pathname, "/" \o locales[i] \o "/")
        \/ pathname = "/" \o locales[i]

\* The scan of the header without lower-casing it
RECURSIVE detectLocaleCaseSensitive(_, _)
detectLocaleCaseSensitive(i, acceptLanguage) ==
    IF i > Len(locales) THEN defaultLocale
    ELSE IF Includes(acceptLanguage, locales[i]) THEN locales[i]
    ELSE detectLocaleCaseSensitive(i + 1, acceptLanguage)

\* for (const locale of locales) if (acceptLanguage.toLowerCase().includes(locale)) ...
RECURSIVE detectLocale(_, _)
detectLocale(i, acceptLanguage) ==
    IF i > Len(locales) THEN defaultLocale
    ELSE IF Includes(ToLowerCase(acceptLanguage), locales[i]) THEN locales[i]
    ELSE detectLocale(i + 1, acceptLanguage)

handleI18nRouting(r) ==
    IF hasLocale(r.pathname) THEN ResponseNext
    ELSE ResponseRedirect("/" \o detectLocale(1, r.acceptLanguage) \o r.pathname)

publicPaths ==
    <<"/", "/privacy", "/terms", "/login", "/register", "/pricing",
      "/checkout/cancel">>

authPages == <<"/login", "/register">>

apiPublicPaths ==
    <<"/api/auth", "/api/health", "/api/register", "/api/stripe/webhook",
      "/api/monitoring">>

RECURSIVE stripLocaleFrom(_, _)
stripLocaleFrom(i, pathname) ==
    IF i > Len(locales) THEN pathname
    ELSE IF StartsWith(pathname, "/" \o locales[i] \o "/")
         THEN LET rest == Slice(pathname, Len("/" \o locales[i]))
              IN  IF rest = "" THEN "/" ELSE rest
    ELSE IF pathname = "/" \o locales[i] THEN "/"
    ELSE stripLocaleFrom(i + 1, pathname)

\* The loop returning after its first round: only the first locale is stripped
stripLocaleFirstOnly(pathname) ==
    IF StartsWith(pathname, "/" \o locales[1] \o "/")
    THEN Slice(pathname, Len("/" \o locales[1]))
    ELSE IF pathname = "/" \o locales[1] THEN "/"
    ELSE pathname

stripLocale(pathname) == stripLocaleFrom(1, pathname)

\* list.some(path => actualPath === path || actualPath.startsWith(path + '/'))
matchesList(list, path) ==
    \E i \in DOMAIN list : path = list[i] \/ StartsWith(path, list[i] \o "/")

isPublicPath(path) == matchesList(publicPaths, path)

isAuthPage(path) == matchesList(authPages, path)

isApiPublicPath(pathname) ==
    \E i \in DOMAIN apiPublicPaths : StartsWith(pathname, apiPublicPaths[i])

\* Only the API-public paths taking the API branch
isApiRoutePublicOnly(pathname) == isApiPublicPath(pathname)

isApiRoute(pathname) == StartsWith(pathname, "/api/")

\* The API branch returning its pass-through as built
apiRouteUndecorated(r) ==
    IF isPreflightRequest(r) THEN handlePreflight(r)
    ELSE IF ~validateCsrfToken(r) THEN csrfErrorResponse
    ELSE ResponseNext

\* The API branch of proxy()
apiRoute(r) ==
    IF isPreflightRequest(r) THEN handlePreflight(r)
    ELSE IF ~validateCsrfToken(r) THEN csrfErrorResponse
    ELSE ensureCsrfToken(r, applyCorsHeaders(r, ResponseNext))

\* The page branch without its CSRF validation
\* The page branch without the preflight check
pageGuardsNoPreflight(r) ==
    IF ~validateCsrfToken(r) THEN csrfErrorResponse ELSE None

pageGuardsNoCsrf(r) ==
    IF isPreflightRequest(r) THEN handlePreflight(r) ELSE None

\* The preflight and CSRF checks of the page branch: the response that ends
\* the request, or None when the request goes on
pageGuards(r) ==
    IF isPreflightRequest(r) THEN handlePreflight(r)
    ELSE IF ~validateCsrfToken(r) THEN csrfErrorResponse
    ELSE None

\* The login redirect carrying the stripped path instead of the request's
loginUrlStripped(pathname) ==
    "/login" \o "?callbackUrl=" \o EncodeQueryValue(stripLocale(pathname))

\* new URL('/login', req.url) with searchParams.set('callbackUrl', pathname),
\* as path and query
loginUrl(pathname) == "/login" \o "?callbackUrl=" \o EncodeQueryValue(pathname)

\* The gating policy without the redirect away from the auth pages
gateNoAuthPageRedirect(r, authenticated, actual, i18n) ==
    IF ~authenticated /\ ~isPublicPath(actual) /\ ~isApiPublicPath(r.pathname)
    THEN ensureCsrfToken(r, applyCorsHeaders(r, ResponseRedirect(
             "/login" \o "?callbackUrl=" \o EncodeQueryValue(r.pathname))))
    ELSE ensureCsrfToken(r, applyCorsHeaders(r, i18n))

\* The gating policy sending every request without a session that is not
\* for a public page other than the auth-only ones to login
gateLoginProtected(r, authenticated, actual, i18n) ==
    IF authenticated /\ isAuthPage(actual)
    THEN ensureCsrfToken(r, applyCorsHeaders(r, ResponseRedirect("/")))
    ELSE IF ~authenticated /\ (~isPublicPath(actual) \/ isAuthPage(actual))
    THEN ensureCsrfToken(r, applyCorsHeaders(r, ResponseRedirect(loginUrl(r.pathname))))
    ELSE ensureCsrfToken(r, applyCorsHeaders(r, i18n))

\* The gating policy with the public list tested first
gatePublicFirst(r, authenticated, actual, i18n) ==
    IF isPublicPath(actual) \/ isApiPublicPath(r.pathname)
    THEN ensureCsrfToken(r, applyCorsHeaders(r, i18n))
    ELSE IF authenticated /\ isAuthPage(actual)
    THEN ensureCsrfToken(r, applyCorsHeaders(r, ResponseRedirect("/")))
    ELSE IF ~authenticated
    THEN ensureCsrfToken(r, applyCorsHeaders(r, ResponseRedirect(
             "/login" \o "?callbackUrl=" \o EncodeQueryValue(r.pathname))))
    ELSE ensureCsrfToken(r, applyCorsHeaders(r, i18n))

\* The gating policy of the page branch
gate(r, authenticated, actual, i18n) ==
    IF authenticated /\ isAuthPage(actual)
    THEN ensureCsrfToken(r, applyCorsHeaders(r, ResponseRedirect("/")))
    ELSE IF ~authenticated /\ ~isPublicPath(actual) /\ ~isApiPublicPath(r.pathname)
    THEN ensureCsrfToken(r, applyCorsHeaders(r, ResponseRedirect(loginUrl(r.pathname))))
    ELSE ensureCsrfToken(r, applyCorsHeaders(r, i18n))

\* The three tests the gating code makes for a request path: two on the
\* stripped path, the API-public one on the path as requested
gateClass(pathname) ==
    [public |-> isPublicPath(stripLocale(pathname)),
     authPage |-> isAuthPage(stripLocale(pathname)),
     apiPublic |-> isApiPublicPath(pathname)]

\* The four-way classification of a locale-stripped path that the three
\* tests of the gating code amount to, the first match winning
classify(path) ==
    IF isApiPublicPath(path) THEN "ApiPublic"
    ELSE IF isPublicPath(path) THEN "Public"
    ELSE IF isAuthPage(path) THEN "AuthOnly"
    ELSE "Protected"

\* The session lookup escapes its try block
sessionLookupUncaught(answer) ==
    [authenticated |-> answer = "found", thrown |-> answer = "throws"]

\* try { session = await auth.api.getSession(...); isAuthenticated = !!session }
\* catch { }: a throw is swallowed and isAuthenticated stays false
sessionLookup(answer) ==
    [authenticated |-> answer = "found", thrown |-> FALSE]

\* The catch block of proxy(): the diagnostic response
proxyErrorResponse ==
    [kind |-> "error", status |-> 500, location |-> NoValue,
     allowOrigin |-> NoValue, setCsrfCookie |-> FALSE, through |-> {},
     body |-> NoBody]

\* The exception leaving proxy() for its caller
proxyRethrow(thrown) ==
    [kind |-> "thrown", status |-> 0, location |-> NoValue,
     allowOrigin |-> NoValue, setCsrfCookie |-> FALSE, through |-> {},
     body |-> NoBody]

\* catch (error): the 500 response with error, message and, for an Error,
\* stack
proxyCatch(thrown) ==
    [proxyErrorResponse EXCEPT
        !.body = [error |-> "Proxy error",
                  message |-> thrown.message,
                  stack |-> IF thrown.isError THEN "stack" ELSE NoValue]]

(***************************************************************************)
(* proxy(): one request at a time, in the steps between its awaits         *)
(***************************************************************************)

\* Nothing throws
NoFault == [stage |-> "none", isError |-> TRUE, message |-> NoValue]

\* A call of the named stage throws an Error, or a value that is no Error
Faults ==
    {NoFault} \cup
    [stage : {"preflight", "csrf", "i18n", "gate", "decorate"},
     isError : {TRUE}, message : {"boom"}] \cup
    [stage : {"preflight", "csrf", "i18n", "gate", "decorate"},
     isError : {FALSE}, message : {"oops"}]

\* The stages in run are executed in order: does one throw, and which were
\* entered when it does
Throws(run) == \E i \in DOMAIN run : run[i] = fault.stage
UntilThrow(run) == SubSeq(run, 1, CHOOSE i \in DOMAIN run : run[i] = fault.stage)

IdleRequest ==
    [method |-> "GET", pathname |-> "/", csrfCookie |-> NoValue,
     csrfHeader |-> NoValue, origin |-> NoValue, acceptLanguage |-> NoValue]

ProxyInit ==
    /\ pc = "idle"
    /\ req = IdleRequest
    /\ sessionSvc = "none"
    /\ i18nResponse = None
    /\ actualPath = NoValue
    /\ isAuthenticated = FALSE
    /\ sessionCalls = 0
    /\ stages = <<>>
    /\ resp = None
    /\ prevResp = None
    /\ prevSvc = "none"
    /\ fault = NoFault
    /\ hops = 0

\* A request arrives; answer is what the session service will say for it,
\* f what will throw while it is handled.
Receive(r, answer, f) ==
    /\ pc = "idle"
    /\ pc' = "start"
    /\ req' = r
    /\ sessionSvc' = answer
    /\ fault' = f
    /\ UNCHANGED <<i18nResponse, actualPath, isAuthenticated, sessionCalls,
                   stages, resp, prevResp, prevSvc, hops>>
    /\ UNCHANGED <<rateVars, libVars>>

\* The stages the API branch runs for r
apiStages(r) ==
    IF isPreflightRequest(r) THEN <<"preflight">>
    ELSE IF ~validateCsrfToken(r) THEN <<"preflight", "csrf">>
    ELSE <<"preflight", "csrf", "decorate">>

\* The stages the page branch runs for r up to the session lookup
pageStages(r) ==
    IF isPreflightRequest(r) THEN <<"preflight">>
    ELSE IF ~validateCsrfToken(r) THEN <<"preflight", "csrf">>
    ELSE <<"preflight", "csrf", "i18n">>

\* proxy.ts:95-106: an API route is answered without locale or session
ApiRoute ==
    /\ pc = "start"
    /\ isApiRoute(req.pathname)
    /\ IF Throws(apiStages(req))
       THEN /\ resp' = proxyCatch(fault)
            /\ stages' = UntilThrow(apiStages(req))
       ELSE /\ resp' = apiRoute(req)
            /\ stages' = apiStages(req)
    /\ pc' = "done"
    /\ UNCHANGED <<req, sessionSvc, i18nResponse, actualPath, isAuthenticated,
                   sessionCalls, prevResp, prevSvc, fault, hops>>
    /\ UNCHANGED <<rateVars, libVars>>

\* proxy.ts:108-122: preflight, CSRF, then locale routing and stripLocale,
\* up to the await of getSession
PageRoute ==
    /\ pc = "start"
    /\ ~isApiRoute(req.pathname)
    /\ IF Throws(pageStages(req))
       THEN /\ resp' = proxyCatch(fault)
            /\ stages' = UntilThrow(pageStages(req))
            /\ pc' = "done"
            /\ UNCHANGED <<i18nResponse, actualPath>>
       ELSE IF pageGuards(req) # None
       THEN /\ resp' = pageGuards(req)
            /\ stages' = pageStages(req)
            /\ pc' = "done"
            /\ UNCHANGED <<i18nResponse, actualPath>>
       ELSE /\ i18nResponse' = handleI18nRouting(req)
            /\ actualPath' = stripLocale(req.pathname)
            /\ stages' = pageStages(req)
            /\ pc' = "session"
            /\ UNCHANGED resp
    /\ UNCHANGED <<req, sessionSvc, isAuthenticated, sessionCalls, prevResp,
                   prevSvc, fault, hops>>
    /\ UNCHANGED <<rateVars, libVars>>

\* proxy.ts:124-132: the session lookup; a throw is caught and leaves
\* isAuthenticated false
GetSession ==
    /\ pc = "session"
    /\ sessionCalls' = sessionCalls + 1
    /\ stages' = Append(stages, "session")
    /\ IF sessionLookup(sessionSvc).thrown
       THEN /\ resp' = proxyCatch([isError |-> TRUE, message |-> "session"])
            /\ pc' = "done"
            /\ UNCHANGED isAuthenticated
       ELSE /\ isAuthenticated' = sessionLookup(sessionSvc).authenticated
            /\ pc' = "gate"
            /\ UNCHANGED resp
    /\ UNCHANGED <<req, sessionSvc, i18nResponse, actualPath, prevResp, prevSvc,
                   fault, hops>>
    /\ UNCHANGED <<rateVars, libVars>>

\* proxy.ts:134-165: classification and gating
Gate ==
    /\ pc = "gate"
    /\ IF Throws(<<"gate", "decorate">>)
       THEN /\ resp' = proxyCatch(fault)
            /\ stages' = stages \o UntilThrow(<<"gate", "decorate">>)
       ELSE /\ resp' = gate(req, isAuthenticated, actualPath, i18nResponse)
            /\ stages' = stages \o <<"gate", "decorate">>
    /\ pc' = "done"
    /\ UNCHANGED <<req, sessionSvc, i18nResponse, actualPath, isAuthenticated,
                   sessionCalls, prevResp, prevSvc, fault, hops>>
    /\ UNCHANGED <<rateVars, libVars>>

\* The same request is submitted once more, the session service answering
\* differently; the first response is kept for comparison.
Resubmit(answer) ==
    /\ pc = "done"
    /\ prevSvc = "none"
    /\ answer # sessionSvc
    /\ prevResp' = resp
    /\ prevSvc' = sessionSvc
    /\ sessionSvc' = answer
    /\ pc' = "start"
    /\ i18nResponse' = None
    /\ actualPath' = NoValue
    /\ isAuthenticated' = FALSE
    /\ sessionCalls' = 0
    /\ stages' = <<>>
    /\ resp' = None
    /\ UNCHANGED <<req, fault, hops>>
    /\ UNCHANGED <<rateVars, libVars>>

\* The pathname of a Location: what precedes the query
RECURSIVE UrlPathnameFrom(_, _)
UrlPathnameFrom(i, location) ==
    IF i > Len(location) THEN location
    ELSE IF SubSeq(location, i, i) = "?" THEN SubSeq(location, 1, i - 1)
    ELSE UrlPathnameFrom(i + 1, location)

UrlPathname(location) == UrlPathnameFrom(1, location)

\* The client follows the redirect proxy() returned: a GET to its Location,
\* with the same cookies and headers, the session service answering as
\* before.
Follow(limit) ==
    /\ pc = "done"
    /\ resp.kind = "redirect"
    /\ hops < limit
    /\ hops' = hops + 1
    /\ req' = [req EXCEPT !.method = "GET", !.pathname = UrlPathname(resp.location)]
    /\ pc' = "start"
    /\ i18nResponse' = None
    /\ actualPath' = NoValue
    /\ isAuthenticated' = FALSE
    /\ sessionCalls' = 0
    /\ stages' = <<>>
    /\ resp' = None
    /\ UNCHANGED <<sessionSvc, prevResp, prevSvc, fault>>
    /\ UNCHANGED <<rateVars, libVars>>

\* The response has been sent; the worker is ready for the next request.
Finish ==
    /\ pc = "done"
    /\ pc' = "idle"
    /\ req' = IdleRequest
    /\ sessionSvc' = "none"
    /\ i18nResponse' = None
    /\ actualPath' = NoValue
    /\ isAuthenticated' = FALSE
    /\ sessionCalls' = 0
    /\ stages' = <<>>
    /\ resp' = None
    /\ prevResp' = None
    /\ prevSvc' = "none"
    /\ fault' = NoFault
    /\ hops' = 0
    /\ UNCHANGED <<rateVars, libVars>>

(***************************************************************************)
(* src/lib/rate-limiter/index.ts and the KV cache client                   *)
(*                                                                         *)
(* Time is Date.now() in milliseconds.  The clock moves over the instants  *)
(* around every half second (the half second, one millisecond before and   *)
(* one after), which puts a call exactly on, just before and just after    *)
(* the end of a window.                                                    *)
(***************************************************************************)

MaxRequests == 2       \* maxRequests of the first configuration
WindowSeconds == 1     \* windowSeconds of the first configuration
StartTime == 1000      \* Date.now() of the initial state
MaxNow == 3501         \* the clock stops here
FaultMaxNow == 2501    \* the clock stops here when the store may fail
MaxCalls == 4          \* calls per key in one run

MsPerSecond == 1000

Callers == {"c1", "c2"}
Identifiers == {"203.0.113.7"}
OtherIdentifier == "198.51.100.9"

ConfigA ==
    [maxRequests |-> MaxRequests, windowSeconds |-> WindowSeconds,
     keyPrefix |-> "rate-limit:login"]
ConfigB ==
    [maxRequests |-> 1, windowSeconds |-> 2,
     keyPrefix |-> "rate-limit:password-reset"]
Configs == {ConfigA, ConfigB}

\* A key made of the identifier alone
keyOfIdentifierOnly(identifier, config) == identifier

\* const key = `${config.keyPrefix}:${identifier}`
keyOf(identifier, config) == config.keyPrefix \o ":" \o identifier

Keys == {keyOf(i, c) : i \in Identifiers \cup {OtherIdentifier}, c \in Configs}

IsInstant(t) == t % 500 \in {0, 1, 499}

\* What a KV key holds: nothing, a string that is not JSON, or the JSON of
\* { count, firstRequestTime }; expiresAt is when its TTL runs out.
Absent == [kind |-> "absent", count |-> 0, firstRequestTime |-> 0, expiresAt |-> 0]
Garbage(exp) ==
    [kind |-> "garbage", count |-> 0, firstRequestTime |-> 0, expiresAt |-> exp]
Record(count, first, exp) ==
    [kind |-> "record", count |-> count, firstRequestTime |-> first,
     expiresAt |-> exp]

\* KVNamespace.get through CacheClient.get: null for a missing or expired
\* key, and null when the KV call throws (the error is logged)
cacheGet(kv, key, clock, kvOk) ==
    IF kvOk /\ kv[key].kind # "absent" /\ clock <= kv[key].expiresAt
    THEN kv[key] ELSE Absent

\* KVNamespace.put through CacheClient.put/set: nothing is stored when the
\* KV call throws (the error is logged)
cachePut(kv, key, count, first, ttlSeconds, clock, kvOk) ==
    IF kvOk
    THEN [kv EXCEPT ![key] = Record(count, first, clock + ttlSeconds * MsPerSecond)]
    ELSE kv

\* A result that refuses the request when there is no cache
failClosedResult(config, nowSeconds) ==
    [allowed |-> FALSE, current |-> 0, limit |-> config.maxRequests,
     remaining |-> 0, resetAt |-> nowSeconds + config.windowSeconds]

\* The result returned without a cache, and from the catch block
failOpenResult(config, nowSeconds) ==
    [allowed |-> TRUE, current |-> 0, limit |-> config.maxRequests,
     remaining |-> config.maxRequests,
     resetAt |-> nowSeconds + config.windowSeconds]

\* count = parsed.count || 0, and count = 0 without data or on a parse error
parsedCount(data) == IF data.kind = "record" THEN data.count ELSE 0

\* firstRequestTime = parsed.firstRequestTime || now, and now without data
\* or on a parse error
parsedFirst(data, t) ==
    IF data.kind = "record" /\ data.firstRequestTime # 0
    THEN data.firstRequestTime ELSE t

\* if (now - firstRequestTime > windowMs)
windowExpired(t, first, config) ==
    t - first > config.windowSeconds * MsPerSecond

\* The window check without the reset of count
windowCountNoReset(data, t, config) == parsedCount(data)

\* count and firstRequestTime after the window check
windowCount(data, t, config) ==
    IF windowExpired(t, parsedFirst(data, t), config) THEN 0 ELSE parsedCount(data)

\* A window that slides: it starts anew at every call
windowFirstSliding(data, t, config) == t

windowFirst(data, t, config) ==
    IF windowExpired(t, parsedFirst(data, t), config) THEN t ELSE parsedFirst(data, t)

\* The limit test off by one
isAllowedUpToLimit(count, config) == count <= config.maxRequests

\* const allowed = count < config.maxRequests
isAllowed(count, config) == count < config.maxRequests

Max(a, b) == IF a >= b THEN a ELSE b

\* The result with allowed derived from what remains after the increment
rateResultByRemaining(allowed, count, first, config) ==
    [allowed |-> config.maxRequests - count > 0, current |-> count,
     limit |-> config.maxRequests,
     remaining |-> Max(0, config.maxRequests - count),
     resetAt |-> (first \div MsPerSecond) + config.windowSeconds]

\* The result of the try block
rateResult(allowed, count, first, config) ==
    [allowed |-> allowed, current |-> count, limit |-> config.maxRequests,
     remaining |-> Max(0, config.maxRequests - count),
     resetAt |-> (first \div MsPerSecond) + config.windowSeconds]

NoResult ==
    [allowed |-> FALSE, current |-> 0, limit |-> 0, remaining |-> 0, resetAt |-> 0]

IdleCall ==
    [pc |-> "idle", identifier |-> NoValue, key |-> NoValue,
     config |-> ConfigA, now |-> 0,
     data |-> Absent, count |-> 0, firstRequestTime |-> 0, allowed |-> FALSE,
     reads |-> 0, writes |-> 0, getFailed |-> FALSE, putFailed |-> FALSE,
     before |-> Absent, result |-> NoResult]

NoHistory ==
    [anchor |-> 0, n |-> 0, remaining |-> 0, admitted |-> 0, seen |-> {},
     callers |-> {}]

RateInit ==
    /\ kvBound \in BOOLEAN
    /\ now = StartTime
    /\ store = [k \in Keys |-> Absent]
    /\ call = [p \in Callers |-> IdleCall]
    /\ hist = [k \in Keys |-> NoHistory]

\* checkRateLimit is called: createCacheClient(), the key, Date.now().
\* Without a cache the result is returned at once.
Call(p, identifier, config) ==
    /\ call[p].pc = "idle"
    /\ hist[keyOf(identifier, config)].n < MaxCalls
    /\ call' = [call EXCEPT ![p] =
          [IdleCall EXCEPT
              !.pc = IF kvBound THEN "read" ELSE "done",
              !.identifier = identifier,
              !.key = keyOf(identifier, config),
              !.config = config,
              !.now = now,
              !.before = store[keyOf(identifier, config)],
              !.allowed = ~kvBound,
              !.result = IF kvBound THEN NoResult
                         ELSE failOpenResult(config, now \div MsPerSecond)]]
    /\ UNCHANGED <<kvBound, now, store, hist>>
    /\ UNCHANGED <<proxyVars, libVars>>

\* The call after cache.get, with the put issued whether or not the request
\* is admitted
afterReadAlwaysPuts(c, data) ==
    LET count == windowCount(data, c.now, c.config)
        first == windowFirst(data, c.now, c.config)
    IN  IF isAllowed(count, c.config)
        THEN [c EXCEPT !.pc = "write", !.data = data, !.count = count + 1,
                       !.firstRequestTime = first, !.allowed = TRUE,
                       !.reads = c.reads + 1]
        ELSE [c EXCEPT !.pc = "write", !.data = data, !.count = count,
                       !.firstRequestTime = first, !.allowed = FALSE,
                       !.reads = c.reads + 1]

\* The call after cache.get: the count is parsed, the window checked and the
\* request admitted or not.  An admitted request goes on to cache.put, a
\* rejected one to the return.
afterRead(c, data) ==
    LET count == windowCount(data, c.now, c.config)
        first == windowFirst(data, c.now, c.config)
    IN  IF isAllowed(count, c.config)
        THEN [c EXCEPT !.pc = "write", !.data = data, !.count = count + 1,
                       !.firstRequestTime = first, !.allowed = TRUE,
                       !.reads = c.reads + 1]
        ELSE [c EXCEPT !.pc = "done", !.data = data, !.count = count,
                       !.firstRequestTime = first, !.allowed = FALSE,
                       !.reads = c.reads + 1,
                       !.result = rateResult(FALSE, count, first, c.config)]

\* await cache.get(key) returns (kvOk: the KV call did not throw).
Read(p, kvOk) ==
    /\ call[p].pc = "read"
    /\ call' = [call EXCEPT ![p] =
          [afterRead(call[p], cacheGet(store, call[p].key, now, kvOk))
              EXCEPT !.getFailed = ~kvOk]]
    /\ UNCHANGED <<kvBound, now, store, hist>>
    /\ UNCHANGED <<proxyVars, libVars>>

\* await cache.put(key, JSON.stringify({ count, firstRequestTime }),
\* { expirationTtl: windowSeconds }) returns (kvOk: the KV call did not
\* throw), and the result is built.
Write(p, kvOk) ==
    /\ call[p].pc = "write"
    /\ LET c == call[p]
       IN  /\ store' = cachePut(store, c.key, c.count, c.firstRequestTime,
                                c.config.windowSeconds, now, kvOk)
           /\ call' = [call EXCEPT ![p] =
                 [c EXCEPT !.pc = "done", !.writes = c.writes + 1,
                           !.putFailed = ~kvOk,
                           !.result = rateResult(c.allowed, c.count,
                                                 c.firstRequestTime, c.config)]]
    /\ UNCHANGED <<kvBound, now, hist>>
    /\ UNCHANGED <<proxyVars, libVars>>

\* The caller takes the result.  hist counts the calls of the key's window
\* as a caller sees it: a call later than windowSeconds after the first one
\* opens a new window.  Of the admitted calls it keeps the number, and the
\* counts they had read (count before the increment); of all calls, the
\* identifier and key prefix they were made with.
Return(p) ==
    /\ call[p].pc = "done"
    /\ LET c == call[p]
           h == hist[c.key]
           fresh == h.anchor = 0
                      \/ c.now - h.anchor > c.config.windowSeconds * MsPerSecond
       IN  hist' = [hist EXCEPT ![c.key] =
              [anchor |-> IF fresh THEN c.now ELSE h.anchor,
               n |-> IF fresh THEN 1 ELSE h.n + 1,
               remaining |-> c.result.remaining,
               admitted |-> (IF fresh THEN 0 ELSE h.admitted)
                              + (IF c.result.allowed THEN 1 ELSE 0),
               seen |-> (IF fresh THEN {} ELSE h.seen)
                          \cup (IF c.result.allowed /\ c.reads > 0
                                THEN {c.count - 1} ELSE {}),
               callers |-> h.callers \cup {<<c.identifier, c.config.keyPrefix>>}]]
    /\ call' = [call EXCEPT ![p] = IdleCall]
    /\ UNCHANGED <<kvBound, now, store>>
    /\ UNCHANGED <<proxyVars, libVars>>

\* Time passes.
Tick(limit) ==
    /\ \E t \in (now + 1)..limit : IsInstant(t) /\ now' = t
    /\ UNCHANGED <<kvBound, store, call, hist>>
    /\ UNCHANGED <<proxyVars, libVars>>

\* A whole window and a millisecond more pass at once.
Elapse(limit) ==
    /\ now + WindowSeconds * MsPerSecond + 1 <= limit
    /\ now' = now + WindowSeconds * MsPerSecond + 1
    /\ UNCHANGED <<kvBound, store, call, hist>>
    /\ UNCHANGED <<proxyVars, libVars>>

\* Something else leaves a value that is not JSON under a rate-limit key.
Corrupt(key) ==
    /\ store[key].kind # "garbage"
    /\ store' = [store EXCEPT ![key] = Garbage(now + MsPerSecond)]
    /\ UNCHANGED <<kvBound, now, call, hist>>
    /\ UNCHANGED <<proxyVars, libVars>>

(***************************************************************************)
(* withCache (cache client module)                                         *)
(***************************************************************************)

MaxVersion == 2        \* changes of the source data in one run
MaxCacheCalls == 3     \* withCache calls in one run of concurrent callers

TtlSeconds == {1, 2}

\* JSON.stringify and JSON.parse of the data fn returns, a number
Digits == <<"0", "1", "2", "3", "4", "5", "6", "7", "8", "9">>

JsonStringify(v) == Digits[v + 1]

JsonParse(text) ==
    IF \E v \in 0..9 : Digits[v + 1] = text
    THEN [ok |-> TRUE, value |-> CHOOSE v \in 0..9 : Digits[v + 1] = text]
    ELSE [ok |-> FALSE, value |-> 0]

\* A stored value that is not JSON
NotJson == "{oops"

NoEntry == [kind |-> "absent", text |-> NoValue, expiresAt |-> 0]

Entry(text, exp) == [kind |-> "text", text |-> text, expiresAt |-> exp]

\* await cache.get(key): the text, or null for a missing or expired key
Null == [null |-> TRUE, text |-> NoValue]

kvGetText(entry, clock) ==
    IF entry.kind = "text" /\ clock <= entry.expiresAt
    THEN [null |-> FALSE, text |-> entry.text]
    ELSE Null

\* if (cached)
truthy(cached) == ~cached.null /\ cached.text # ""

IdleWc ==
    [pc |-> "idle", ttl |-> 0, before |-> NoEntry, cached |-> Null,
     steps |-> <<>>, fnCalls |-> 0, result |-> 0, ret |-> 0, floor |-> 0]

CacheInit ==
    /\ cacheKv = NoEntry
    /\ source = 0
    /\ wc = [p \in Callers |-> IdleWc]
    /\ writer = "idle"
    /\ inval = [fresh |-> 0, calls |-> 0]

\* Nothing is in flight: no withCache call and no write
WcQuiet == writer = "idle" /\ \A p \in Callers : wc[p].pc = "idle"

\* withCache is called: createCacheClient(), and without a cache client fn
\* is awaited directly.  floor is the version of the data at the last
\* invalidation when nothing was in flight at the call.
WcCall(p, ttl) ==
    /\ wc[p].pc = "idle"
    /\ wc' = [wc EXCEPT ![p] =
          [IdleWc EXCEPT !.pc = IF kvBound THEN "get" ELSE "fn",
                         !.ttl = ttl,
                         !.before = cacheKv,
                         !.floor = IF WcQuiet THEN inval.fresh ELSE 0]]
    /\ inval' = [inval EXCEPT !.calls = IF inval.calls < MaxCacheCalls
                                        THEN inval.calls + 1
                                        ELSE MaxCacheCalls]
    /\ UNCHANGED <<cacheKv, source, writer>>
    /\ UNCHANGED <<proxyVars, rateVars, dbVars, regVars>>

\* The call that never looks at what cache.get returned
withCacheAfterGetNoCache(c, cached) ==
    [c EXCEPT !.pc = "fn", !.cached = cached, !.steps = Append(c.steps, "get")]

\* The call after cache.get: a value that parses is returned, one that does
\* not parse is deleted, and without a value fn is called
withCacheAfterGet(c, cached) ==
    IF truthy(cached)
    THEN IF JsonParse(cached.text).ok
         THEN [c EXCEPT !.pc = "done", !.cached = cached,
                        !.steps = Append(c.steps, "get"),
                        !.ret = JsonParse(cached.text).value]
         ELSE [c EXCEPT !.pc = "delete", !.cached = cached,
                        !.steps = Append(c.steps, "get")]
    ELSE [c EXCEPT !.pc = "fn", !.cached = cached,
                   !.steps = Append(c.steps, "get")]

\* await cache.get(key) returns
WcGet(p) ==
    /\ wc[p].pc = "get"
    /\ wc' = [wc EXCEPT ![p] = withCacheAfterGet(wc[p], kvGetText(cacheKv, now))]
    /\ UNCHANGED <<cacheKv, source, writer, inval>>
    /\ UNCHANGED <<proxyVars, rateVars, dbVars, regVars>>

\* await cache.delete(key) returns, in the catch of JSON.parse
WcDelete(p) ==
    /\ wc[p].pc = "delete"
    /\ cacheKv' = NoEntry
    /\ wc' = [wc EXCEPT ![p] =
          [wc[p] EXCEPT !.pc = "fn", !.steps = Append(wc[p].steps, "delete")]]
    /\ UNCHANGED <<source, writer, inval>>
    /\ UNCHANGED <<proxyVars, rateVars, dbVars, regVars>>

\* await fn() returns what the source data is now
WcFn(p) ==
    /\ wc[p].pc = "fn"
    /\ wc' = [wc EXCEPT ![p] =
          [wc[p] EXCEPT !.pc = IF kvBound THEN "set" ELSE "done",
                        !.steps = Append(wc[p].steps, "fn"),
                        !.fnCalls = wc[p].fnCalls + 1,
                        !.result = source,
                        !.ret = source]]
    /\ UNCHANGED <<cacheKv, source, writer, inval>>
    /\ UNCHANGED <<proxyVars, rateVars, dbVars, regVars>>

\* await cache.set(key, JSON.stringify(result), { expirationTtl: ttl })
WcSet(p) ==
    /\ wc[p].pc = "set"
    /\ cacheKv' = Entry(JsonStringify(wc[p].result), now + wc[p].ttl * MsPerSecond)
    /\ wc' = [wc EXCEPT ![p] =
          [wc[p] EXCEPT !.pc = "done", !.steps = Append(wc[p].steps, "set")]]
    /\ UNCHANGED <<source, writer, inval>>
    /\ UNCHANGED <<proxyVars, rateVars, dbVars, regVars>>

\* The caller takes the value.
WcReturn(p) ==
    /\ wc[p].pc = "done"
    /\ wc' = [wc EXCEPT ![p] = IdleWc]
    /\ UNCHANGED <<cacheKv, source, writer, inval>>
    /\ UNCHANGED <<proxyVars, rateVars, dbVars, regVars>>

\* A writer changes the source data (repos.users.create, ...)
Change ==
    /\ writer = "idle"
    /\ source < MaxVersion
    /\ source' = source + 1
    /\ writer' = "changed"
    /\ UNCHANGED <<cacheKv, wc, inval>>
    /\ UNCHANGED <<proxyVars, rateVars, dbVars, regVars>>

\* and then deletes the cache key (cache?.delete('users:all'),
\* invalidateUserCache)
Invalidate ==
    /\ writer = "changed"
    /\ writer' = "idle"
    /\ cacheKv' = IF kvBound THEN NoEntry ELSE cacheKv
    /\ inval' = [inval EXCEPT !.fresh = source]
    /\ UNCHANGED <<source, wc>>
    /\ UNCHANGED <<proxyVars, rateVars, dbVars, regVars>>

\* Something else leaves a value that is not JSON under the key.
Spoil ==
    /\ kvBound
    /\ cacheKv.text # NotJson
    /\ cacheKv' = Entry(NotJson, now + MsPerSecond)
    /\ UNCHANGED <<source, wc, writer, inval>>
    /\ UNCHANGED <<proxyVars, rateVars, dbVars, regVars>>

(***************************************************************************)
(* createPrismaClient / resetPrismaClient (lib/db/client.ts)               *)
(***************************************************************************)

MaxClients == 5        \* PrismaClient instances constructed in one run

NodeEnvs == {"production", "development"}

NoneServed ==
    [calls |-> 0, instances |-> {}, builtNow |-> 0, firstBuilt |-> FALSE,
     old |-> {}]

DbInit ==
    /\ prismaClient = 0
    /\ globalPrisma = 0
    /\ built = 0
    /\ served = NoneServed

\* createPrismaClient constructing a client at every call with a D1 binding
createPrismaClientNoReuse(client, glob, n, db, nodeEnv) ==
    IF db
    THEN [prismaClient |-> n + 1, globalPrisma |-> glob, built |-> n + 1,
          returned |-> n + 1, constructed |-> TRUE, threw |-> FALSE]
    ELSE IF nodeEnv = "production"
    THEN [prismaClient |-> client, globalPrisma |-> glob, built |-> n,
          returned |-> 0, constructed |-> FALSE, threw |-> TRUE]
    ELSE IF glob = 0
    THEN [prismaClient |-> client, globalPrisma |-> n + 1, built |-> n + 1,
          returned |-> n + 1, constructed |-> TRUE, threw |-> FALSE]
    ELSE [prismaClient |-> client, globalPrisma |-> glob, built |-> n,
          returned |-> glob, constructed |-> FALSE, threw |-> FALSE]

\* createPrismaClient(): the module variables after the call, the instance
\* returned, whether one was constructed, whether the call threw.  db is
\* whether getDatabase() found a D1 binding, n the instances constructed so
\* far.
createPrismaClient(client, glob, n, db, nodeEnv) ==
    IF db
    THEN IF client # 0
         THEN [prismaClient |-> client, globalPrisma |-> glob, built |-> n,
               returned |-> client, constructed |-> FALSE, threw |-> FALSE]
         ELSE [prismaClient |-> n + 1, globalPrisma |-> glob, built |-> n + 1,
               returned |-> n + 1, constructed |-> TRUE, threw |-> FALSE]
    ELSE IF nodeEnv = "production"
    THEN [prismaClient |-> client, globalPrisma |-> glob, built |-> n,
          returned |-> 0, constructed |-> FALSE, threw |-> TRUE]
    ELSE IF glob = 0
    THEN [prismaClient |-> client, globalPrisma |-> n + 1, built |-> n + 1,
          returned |-> n + 1, constructed |-> TRUE, threw |-> FALSE]
    ELSE [prismaClient |-> client, globalPrisma |-> glob, built |-> n,
          returned |-> glob, constructed |-> FALSE, threw |-> FALSE]

\* A call of createPrismaClient.  served keeps, of the calls with a D1
\* binding since the last reset: how many (0, 1, or 2 for more), the
\* instances they returned, how many they constructed, whether the first of
\* them constructed one; and the instances returned before that reset.
CreatePrismaClient(db, nodeEnv) ==
    /\ built < MaxClients
    /\ LET r == createPrismaClient(prismaClient, globalPrisma, built, db, nodeEnv)
       IN  /\ prismaClient' = r.prismaClient
           /\ globalPrisma' = r.globalPrisma
           /\ built' = r.built
           /\ served' =
                 IF db
                 THEN [served EXCEPT
                          !.calls = IF served.calls = 0 THEN 1 ELSE 2,
                          !.instances = served.instances \cup {r.returned},
                          !.builtNow = served.builtNow
                                         + (IF r.constructed THEN 1 ELSE 0),
                          !.firstBuilt = IF served.calls = 0 THEN r.constructed
                                         ELSE served.firstBuilt]
                 ELSE served
    /\ UNCHANGED <<proxyVars, rateVars, cacheVars, regVars>>

\* resetPrismaClient(): both clients are disconnected and dropped
ResetPrismaClient ==
    /\ prismaClient' = 0
    /\ globalPrisma' = 0
    /\ served' = [NoneServed EXCEPT !.old = served.old \cup served.instances]
    /\ UNCHANGED built
    /\ UNCHANGED <<proxyVars, rateVars, cacheVars, regVars>>

(***************************************************************************)
(* POST /api/register (the registration route handler)                     *)
(***************************************************************************)

Emails == {"ann@example.com", "bob@example.com"}

IdleReg ==
    [pc |-> "idle", email |-> NoValue, created |-> 0, status |-> 0]

RegInit ==
    /\ users = {}
    /\ accounts = {}
    /\ reg = [p \in Callers |-> IdleReg]

\* The handler is entered and the body parsed and validated
\* (parseAndValidateBody throws on a body that is not valid).
RegStart(p, email, valid) ==
    /\ reg[p].pc = "idle"
    /\ reg' = [reg EXCEPT ![p] =
          IF valid THEN [IdleReg EXCEPT !.pc = "exists", !.email = email]
          ELSE [IdleReg EXCEPT !.pc = "done", !.email = email, !.status = 400]]
    /\ UNCHANGED <<users, accounts>>
    /\ UNCHANGED <<proxyVars, rateVars, cacheVars, dbVars>>

\* await repos.users.existsByEmail(email); ResourceAlreadyExistsError if so
RegExists(p) ==
    /\ reg[p].pc = "exists"
    /\ reg' = [reg EXCEPT ![p] =
          IF \E u \in users : u.email = reg[p].email
          THEN [reg[p] EXCEPT !.pc = "done", !.status = 409]
          ELSE [reg[p] EXCEPT !.pc = "createUser"]]
    /\ UNCHANGED <<users, accounts>>
    /\ UNCHANGED <<proxyVars, rateVars, cacheVars, dbVars>>

\* await repos.users.create(...): the row is inserted, or the call throws
\* (dbOk false, or the email was inserted meanwhile and is unique)
RegCreateUser(p, dbOk) ==
    /\ reg[p].pc = "createUser"
    /\ IF dbOk /\ ~\E u \in users : u.email = reg[p].email
       THEN /\ users' = users \cup
                  {[id |-> Cardinality(users) + 1, email |-> reg[p].email]}
            /\ reg' = [reg EXCEPT ![p] =
                  [reg[p] EXCEPT !.pc = "createAccount",
                                 !.created = Cardinality(users) + 1]]
       ELSE /\ reg' = [reg EXCEPT ![p] =
                  [reg[p] EXCEPT !.pc = "done", !.status = 500]]
            /\ UNCHANGED users
    /\ UNCHANGED accounts
    /\ UNCHANGED <<proxyVars, rateVars, cacheVars, dbVars>>

\* await prisma.account.create(...): the row is inserted, or the call throws
\* and the handler ends
RegCreateAccount(p, dbOk) ==
    /\ reg[p].pc = "createAccount"
    /\ IF dbOk
       THEN /\ accounts' = accounts \cup
                  {[userId |-> reg[p].created,
                    providerAccountId |-> reg[p].email]}
            /\ reg' = [reg EXCEPT ![p] = [reg[p] EXCEPT !.pc = "clear"]]
       ELSE /\ reg' = [reg EXCEPT ![p] =
                  [reg[p] EXCEPT !.pc = "done", !.status = 500]]
            /\ UNCHANGED accounts
    /\ UNCHANGED users
    /\ UNCHANGED <<proxyVars, rateVars, cacheVars, dbVars>>

\* await cache?.delete('users:all'), the analytics event, and the 201
RegFinish(p) ==
    /\ reg[p].pc = "clear"
    /\ cacheKv' = IF kvBound THEN NoEntry ELSE cacheKv
    /\ reg' = [reg EXCEPT ![p] = [reg[p] EXCEPT !.pc = "done", !.status = 201]]
    /\ UNCHANGED <<users, accounts>>
    /\ UNCHANGED <<source, wc, writer, inval>>
    /\ UNCHANGED <<proxyVars, rateVars, dbVars>>

\* The response has been sent.
RegReturn(p) ==
    /\ reg[p].pc = "done"
    /\ reg' = [reg EXCEPT ![p] = IdleReg]
    /\ UNCHANGED <<users, accounts>>
    /\ UNCHANGED <<proxyVars, rateVars, cacheVars, dbVars>>

LibInit == CacheInit /\ DbInit /\ RegInit

(***************************************************************************)
(* Specifications                                                          *)
(***************************************************************************)

Init == ProxyInit /\ RateInit /\ LibInit /\ kvBound

Next ==
    \/ pc = "idle" /\ \E r \in Requests, a \in SessionAnswers : Receive(r, a, NoFault)
    \/ ApiRoute
    \/ PageRoute
    \/ GetSession
    \/ Gate
    \/ \E a \in SessionAnswers : Resubmit(a)
    \/ Finish

\* The admission pipeline
Spec == Init /\ [][Next]_vars

\* The admission pipeline with calls that throw: every method, path and
\* token, for a request without Accept-Language and with or without a
\* permitted Origin
ThrowRequests ==
    {r \in Requests : r.acceptLanguage = NoValue /\ r.origin # OtherOrigin}

ThrowNext ==
    \/ pc = "idle" /\ \E r \in ThrowRequests, a \in SessionAnswers, f \in Faults :
                        Receive(r, a, f)
    \/ ApiRoute
    \/ PageRoute
    \/ GetSession
    \/ Gate
    \/ Finish

ThrowSpec == Init /\ [][ThrowNext]_vars

\* Redirect chains: a GET for a page, and then a GET for the Location of
\* each redirect returned, up to MaxHops of them.
MaxHops == 4

FollowRequests ==
    {r \in Requests : /\ r.method = "GET"
                      /\ r.pathname \in PagePaths
                      /\ r.origin = NoValue
                      /\ r.csrfHeader = NoValue}

FollowNext ==
    \/ pc = "idle" /\ \E r \in FollowRequests, a \in SessionAnswers :
                        Receive(r, a, NoFault)
    \/ PageRoute
    \/ GetSession
    \/ Gate
    \/ Follow(MaxHops)
    \/ Finish

FollowSpec == Init /\ [][FollowNext]_vars

AllIdle == \A p \in Callers : call[p].pc = "idle"

\* One caller, one call at a time, each call at one instant of the clock,
\* and a KV store that works.
SeqCall(p, identifier, config) == AllIdle /\ Call(p, identifier, config)
SeqRead(p) == Read(p, TRUE)
SeqWrite(p) == Write(p, TRUE)
SeqReturn(p) == Return(p)
SeqTick == AllIdle /\ Tick(MaxNow)

SeqInit == ProxyInit /\ RateInit /\ LibInit

SeqNext ==
    \/ \E i \in Identifiers : SeqCall("c1", i, ConfigA)
    \/ SeqRead("c1")
    \/ SeqWrite("c1")
    \/ SeqReturn("c1")
    \/ SeqTick

SeqSpec == SeqInit /\ [][SeqNext]_vars

\* The same, with a KV store whose reads and writes may throw and whose
\* values may be spoilt.
FaultRead(p) == \E ok \in BOOLEAN : Read(p, ok)
FaultWrite(p) == \E ok \in BOOLEAN : Write(p, ok)
FaultCorrupt == AllIdle /\ Corrupt(keyOf("203.0.113.7", ConfigA))
FaultTick == AllIdle /\ Tick(FaultMaxNow)

FaultNext ==
    \/ \E i \in Identifiers : SeqCall("c1", i, ConfigA)
    \/ FaultRead("c1")
    \/ FaultWrite("c1")
    \/ SeqReturn("c1")
    \/ FaultTick
    \/ FaultCorrupt

FaultSpec == SeqInit /\ [][FaultNext]_vars

\* Concurrent callers of one identifier and config, the KV store working: a
\* call of one caller may be anywhere between its awaits while the other
\* runs.  The clock moves on by less than half a second in all, so that
\* every call is in the window the first one opens.
ConcMaxNow == StartTime + (MsPerSecond \div 2 - 1)

ConcCall == \E p \in Callers, i \in Identifiers : Call(p, i, ConfigA)
ConcRead == \E p \in Callers : Read(p, TRUE)
ConcWrite == \E p \in Callers : Write(p, TRUE)
ConcReturn == \E p \in Callers : Return(p)
ConcTick == Tick(ConcMaxNow)

ConcNext ==
    \/ ConcCall
    \/ ConcRead
    \/ ConcWrite
    \/ ConcReturn
    \/ ConcTick

ConcSpec == Init /\ [][ConcNext]_vars

\* One caller with one identifier and config, while another caller uses
\* another identifier with the same config and the same identifier with
\* another config, all in one window.
KeysCall ==
    \/ Call("c1", "203.0.113.7", ConfigA)
    \/ Call("c2", OtherIdentifier, ConfigA)
    \/ Call("c2", "203.0.113.7", ConfigB)

KeysNext ==
    \/ KeysCall
    \/ ConcRead
    \/ ConcWrite
    \/ ConcReturn
    \/ ConcTick

KeysSpec == Init /\ [][KeysNext]_vars

\* Concurrent callers of one identifier and config while windows end: the
\* clock moves from one window into the next, and into the one after, while
\* calls are between their awaits.
RaceMaxNow == StartTime + 2 * (WindowSeconds * MsPerSecond + 1)

RaceElapse == Elapse(RaceMaxNow)

RaceNext ==
    \/ ConcCall
    \/ ConcRead
    \/ ConcWrite
    \/ ConcReturn
    \/ RaceElapse

RaceSpec == Init /\ [][RaceNext]_vars

\* withCache called by one caller, one call at a time and each at one
\* instant, with or without a cache client; between calls the source data
\* changes and the key is deleted, the key is spoilt, and time passes.
CacheMaxNow == StartTime + 2 * MsPerSecond + 1

CacheCall == WcQuiet /\ \E ttl \in TtlSeconds : WcCall("c1", ttl)

CacheNext ==
    \/ CacheCall
    \/ WcGet("c1")
    \/ WcDelete("c1")
    \/ WcFn("c1")
    \/ WcSet("c1")
    \/ WcReturn("c1")
    \/ WcQuiet /\ Change
    \/ Invalidate
    \/ WcQuiet /\ Spoil
    \/ WcQuiet /\ Tick(CacheMaxNow)

CacheSpec == SeqInit /\ [][CacheNext]_vars

\* withCache called by two callers while a writer changes the source data
\* and deletes the key, each of them anywhere between its awaits.
StaleCall ==
    /\ inval.calls < MaxCacheCalls
    /\ \E p \in Callers : WcCall(p, 2)

StaleNext ==
    \/ StaleCall
    \/ \E p \in Callers : WcGet(p)
    \/ \E p \in Callers : WcFn(p)
    \/ \E p \in Callers : WcSet(p)
    \/ \E p \in Callers : WcReturn(p)
    \/ Change
    \/ Invalidate

StaleSpec == Init /\ [][StaleNext]_vars

\* createPrismaClient and resetPrismaClient called in any order, with and
\* without a D1 binding
DbNext ==
    \/ \E db \in BOOLEAN, e \in NodeEnvs : CreatePrismaClient(db, e)
    \/ ResetPrismaClient

DbSpec == Init /\ [][DbNext]_vars

\* Registrations by two callers, with database calls that may throw
RegNext ==
    \/ \E p \in Callers, e \in Emails, valid \in BOOLEAN : RegStart(p, e, valid)
    \/ \E p \in Callers : RegExists(p)
    \/ \E p \in Callers, ok \in BOOLEAN : RegCreateUser(p, ok)
    \/ \E p \in Callers, ok \in BOOLEAN : RegCreateAccount(p, ok)
    \/ \E p \in Callers : RegFinish(p)
    \/ \E p \in Callers : RegReturn(p)

RegSpec == Init /\ [][RegNext]_vars

(***************************************************************************)
(* The admission pipeline: claims                                          *)
(***************************************************************************)

Done == pc = "done"

IsPageRequest == ~StartsWith(req.pathname, "/api/")

\* The request got past the preflight and CSRF checks
PastGuards ==
    /\ ~(req.method = "OPTIONS" /\ req.origin # NoValue)
    /\ \/ req.method \in SafeMethods
       \/ (req.csrfCookie # NoValue /\ req.csrfHeader = req.csrfCookie)

NoSession == sessionSvc \in {"null", "throws"}

BadCsrf ==
    /\ req.method \in UnsafeMethods
    /\ (req.csrfCookie = NoValue \/ req.csrfHeader # req.csrfCookie)

\* C1: an unsafe-method request (POST, PUT, PATCH, DELETE), to an API path or
\* to a page path, that has no CSRF cookie or whose CSRF header differs from
\* the cookie is answered with the 403 CSRF rejection, never with a
\* pass-through or a redirect.
C1_CsrfRejected ==
    (Done /\ BadCsrf) =>
        /\ resp.kind = "csrfError"
        /\ resp.status = 403
        /\ resp.kind \notin {"next", "redirect"}

C1_Witness ==
    /\ Done
    /\ BadCsrf
    /\ IsPageRequest
    /\ req.csrfCookie = "t1"
    /\ req.csrfHeader = "t2"
    /\ resp.kind = "csrfError"

\* C2: a page request past the preflight and CSRF checks, without a valid
\* session, whose locale-stripped path is Protected, is redirected to /login
\* with callbackUrl set to the request's own pathname, locale prefix
\* included: /en/dashboard gives /login?callbackUrl=%2Fen%2Fdashboard.
C2_LoginRedirect ==
    (Done /\ IsPageRequest /\ PastGuards /\ NoSession
          /\ classify(stripLocale(req.pathname)) = "Protected") =>
        /\ resp.kind = "redirect"
        /\ resp.location = "/login?callbackUrl=" \o EncodeQueryValue(req.pathname)
        /\ (req.pathname = "/en/dashboard"
              => resp.location = "/login?callbackUrl=%2Fen%2Fdashboard")
        /\ (req.pathname = "/fr/settings/profile"
              => resp.location = "/login?callbackUrl=%2Ffr%2Fsettings%2Fprofile")

C2_Witness ==
    /\ Done
    /\ PastGuards
    /\ sessionSvc = "null"
    /\ req.pathname = "/en/dashboard"
    /\ resp.kind = "redirect"
    /\ resp.location = "/login?callbackUrl=%2Fen%2Fdashboard"

\* The locale-stripped path is /login, /register or a sub-path of either
OnAuthOnlyPage ==
    LET a == stripLocale(req.pathname)
    IN  \/ a \in {"/login", "/register"}
        \/ StartsWith(a, "/login/")
        \/ StartsWith(a, "/register/")

\* C3: a page request past the preflight and CSRF checks, with a valid
\* session, on an auth-only page (/login, /register or a sub-path of either)
\* is redirected to / and never gets the locale-resolution response.
C3_AuthPageRedirect ==
    (Done /\ IsPageRequest /\ PastGuards /\ sessionSvc = "found" /\ OnAuthOnlyPage) =>
        /\ resp.kind = "redirect"
        /\ resp.location = "/"
        /\ resp.kind # "next"
        /\ ~StartsWith(resp.location, "/en/")
        /\ ~StartsWith(resp.location, "/fr/")

C3_Witness ==
    /\ Done
    /\ PastGuards
    /\ sessionSvc = "found"
    /\ req.pathname \in {"/login", "/en/login/reset"}
    /\ i18nResponse # None
    /\ resp.kind = "redirect"
    /\ resp.location = "/"

\* C4: the proxy is default-protected: a request without a valid session to
\* a path that is in no explicit public list never gets a pass-through
\* response.
C4_DefaultProtected ==
    (Done /\ NoSession
          /\ ~isPublicPath(stripLocale(req.pathname))
          /\ ~isApiPublicPath(req.pathname)) =>
        resp.kind # "next"

\* C5: a throw of the session service is treated as a null session: the
\* response to a request is the same whether getSession throws or returns
\* null, so a failed lookup gives neither a 500 nor, on a public page, a
\* login redirect.
C5_ThrowIsNoSession ==
    /\ (Done /\ prevSvc # "none" /\ {prevSvc, sessionSvc} = {"null", "throws"})
          => resp = prevResp
    /\ (Done /\ sessionSvc = "throws")
          => /\ resp.kind # "error"
             /\ resp.status # 500
             /\ (IsPageRequest /\ PastGuards
                   /\ stripLocale(req.pathname) \in {"/", "/pricing", "/privacy"})
                  => ~StartsWith(resp.location, "/login")

C5_Witness ==
    /\ Done
    /\ prevSvc = "null"
    /\ sessionSvc = "throws"
    /\ sessionCalls = 1
    /\ req.pathname = "/en/privacy"
    /\ resp.kind = "next"
    /\ resp = prevResp

(***************************************************************************)
(* The rate limiter: claims                                                *)
(***************************************************************************)

TheCall == call["c1"]

Returned == TheCall.pc = "done"

WindowMs(config) == config.windowSeconds * MsPerSecond

\* The call in hand is made within windowSeconds of the first call of the
\* key's window
InWindow ==
    /\ hist[TheCall.key].anchor # 0
    /\ TheCall.now - hist[TheCall.key].anchor <= WindowMs(TheCall.config)

\* Its number among the calls of that window
CallNumber == IF InWindow THEN hist[TheCall.key].n + 1 ELSE 1

\* C6: with a cache, and one identifier and config called sequentially, each
\* of the first maxRequests calls made within windowSeconds of the first one
\* is allowed and returns less remaining than the call before it
\* (maxRequests minus its number); call number maxRequests + 1 of the same
\* window is refused with remaining 0.
C6_WindowCounts ==
    (kvBound /\ Returned) =>
        LET r == TheCall.result
            max == TheCall.config.maxRequests
        IN  /\ (CallNumber <= max) =>
                  /\ r.allowed
                  /\ r.remaining = max - CallNumber
                  /\ (CallNumber > 1 => r.remaining < hist[TheCall.key].remaining)
            /\ (CallNumber = max + 1) =>
                  /\ ~r.allowed
                  /\ r.remaining = 0

\* The refused call arrives exactly windowSeconds after the first call
C6_Witness ==
    /\ kvBound
    /\ Returned
    /\ InWindow
    /\ CallNumber = TheCall.config.maxRequests + 1
    /\ TheCall.now - hist[TheCall.key].anchor = WindowMs(TheCall.config)
    /\ ~TheCall.result.allowed
    /\ TheCall.result.remaining = 0

\* The record stored when the call was made is of a window whose first call
\* is more than windowSeconds back
StoredWindowOver ==
    /\ TheCall.before.kind = "record"
    /\ TheCall.now - TheCall.before.firstRequestTime > WindowMs(TheCall.config)

\* C7: a call made after windowSeconds have elapsed since the first call of
\* the stored window is allowed with current = 1 and starts a new window at
\* the time of the call, whatever count the old window holds (a count equal
\* to maxRequests included).
C7_WindowReset ==
    (kvBound /\ Returned /\ StoredWindowOver) =>
        /\ TheCall.result.allowed
        /\ TheCall.result.current = 1
        /\ TheCall.result.resetAt =
              (TheCall.now \div 1000) + TheCall.config.windowSeconds
        /\ store[TheCall.key].kind = "record"
        /\ store[TheCall.key].count = 1
        /\ store[TheCall.key].firstRequestTime = TheCall.now

\* The old record is still readable and full
C7_Witness ==
    /\ kvBound
    /\ Returned
    /\ StoredWindowOver
    /\ TheCall.data.kind = "record"
    /\ TheCall.data.count = TheCall.config.maxRequests
    /\ TheCall.result.current = 1
    /\ TheCall.result.allowed

\* C8: without a cache client every call returns allowed with current 0 and
\* remaining = maxRequests, whatever was called before, and reads and writes
\* nothing.
C8_NoCacheAllows ==
    ~kvBound =>
        /\ store = [k \in Keys |-> Absent]
        /\ TheCall.pc \in {"idle", "done"}
        /\ Returned =>
              /\ TheCall.result.allowed
              /\ TheCall.result.current = 0
              /\ TheCall.result.limit = TheCall.config.maxRequests
              /\ TheCall.result.remaining = TheCall.config.maxRequests
              /\ TheCall.reads = 0
              /\ TheCall.writes = 0

\* More calls than maxRequests have already been made at the same instant
C8_Witness ==
    /\ ~kvBound
    /\ Returned
    /\ hist[TheCall.key].n > TheCall.config.maxRequests
    /\ hist[TheCall.key].anchor = TheCall.now
    /\ TheCall.result.allowed
    /\ TheCall.result.remaining = TheCall.config.maxRequests

StoreFailed ==
    \/ TheCall.getFailed
    \/ TheCall.data.kind = "garbage"
    \/ TheCall.putFailed

\* C9: checkRateLimit fails open: a call whose cache read failed, whose
\* stored value could not be parsed or whose cache write failed still returns
\* a result, and the result says allowed.
C9_FailOpen ==
    (kvBound /\ Returned /\ StoreFailed) =>
        /\ TheCall.result # NoResult
        /\ TheCall.result.allowed
        /\ TheCall.result.limit = TheCall.config.maxRequests

\* The read fails while the store holds a full window that is not over
C9_Witness ==
    /\ kvBound
    /\ Returned
    /\ TheCall.getFailed
    /\ TheCall.before.kind = "record"
    /\ TheCall.before.count = TheCall.config.maxRequests
    /\ TheCall.now <= TheCall.before.expiresAt
    /\ ~StoredWindowOver
    /\ TheCall.result.allowed

\* C10: a call that returns allowed: false issues no write: the record of
\* its key (count, firstRequestTime and expiry) is after the call what it was
\* before it.
C10_RejectLeavesRecord ==
    (kvBound /\ Returned /\ ~TheCall.result.allowed) =>
        /\ TheCall.writes = 0
        /\ store[TheCall.key] = TheCall.before

C10_Witness ==
    /\ kvBound
    /\ Returned
    /\ ~TheCall.result.allowed
    /\ TheCall.reads = 1
    /\ store[TheCall.key].count = TheCall.config.maxRequests
    /\ now > store[TheCall.key].firstRequestTime

(***************************************************************************)
(* The admission pipeline: more claims                                     *)
(***************************************************************************)

\* C12: for a safe-method request (GET, HEAD, OPTIONS) CSRF validation
\* passes whatever the CSRF cookie and header are, so the response is never
\* the CSRF rejection.
C12_SafeMethodsPass ==
    (Done /\ req.method \in {"GET", "HEAD", "OPTIONS"}) =>
        /\ resp.kind # "csrfError"
        /\ resp.status # 403

\* A safe request whose header contradicts its cookie goes through
C12_Witness ==
    /\ Done
    /\ req.method = "HEAD"
    /\ req.csrfCookie = "t1"
    /\ req.csrfHeader = "t2"
    /\ resp.kind = "next"

\* The path is /<locale> or starts with /<locale>/
Prefixed(path) ==
    \E l \in {"en", "fr"} : path = "/" \o l \/ StartsWith(path, "/" \o l \o "/")

\* The locale the claim names for the request's Accept-Language header
ExpectedLocale ==
    CASE req.acceptLanguage = "fr-FR,en;q=0.9" -> "en"
      [] req.acceptLanguage = "de,FR;q=0.8" -> "fr"
      [] OTHER -> "en"

IsI18nResponse ==
    /\ resp.kind = i18nResponse.kind
    /\ resp.location = i18nResponse.location

\* C15 as stated: the first of API-public list, public list, auth-only list
\* that matches decides, so a path in the public list is Public: it gets the
\* locale-resolution response, session or not.
C15_PublicListFirst ==
    (Done /\ IsPageRequest /\ PastGuards
          /\ classify(stripLocale(req.pathname)) = "Public") =>
        IsI18nResponse

\* C15 (amended): the auth-only test decides for a request with a session
\* and the public tests for one without: a stripped path in both lists
\* (/login, /register) is auth-only, redirected to / with a session and
\* given the locale-resolution response without one; a path in the public
\* list alone always gets the locale-resolution response; a path in no list
\* is Protected, redirected to login without a session.
C15_AuthOnlyFirst ==
    (Done /\ IsPageRequest /\ PastGuards) =>
        LET a == stripLocale(req.pathname)
        IN  /\ (isAuthPage(a) /\ sessionSvc = "found") =>
                  (resp.kind = "redirect" /\ resp.location = "/")
            /\ (isAuthPage(a) /\ NoSession) => IsI18nResponse
            /\ (isPublicPath(a) /\ ~isAuthPage(a)) => IsI18nResponse
            /\ (~isPublicPath(a) /\ ~isAuthPage(a) /\ NoSession) =>
                  (resp.kind = "redirect" /\ StartsWith(resp.location, "/login?"))
            /\ (~isPublicPath(a) /\ ~isAuthPage(a) /\ sessionSvc = "found") =>
                  IsI18nResponse

C15_Witness ==
    /\ Done
    /\ PastGuards
    /\ req.pathname = "/fr/register"
    /\ isPublicPath(actualPath)
    /\ isAuthPage(actualPath)
    /\ sessionSvc = "found"
    /\ resp.location = "/"

C17_AllDecorated ==
    Done =>
        IF resp.kind = "csrfError"
        THEN "cors" \notin resp.through
        ELSE resp.through = {"cors", "csrf"}

\* C17: every redirect and every pass-through proxy returns has been passed
\* through applyCorsHeaders and then ensureCsrfToken; the CSRF rejection, the
\* preflight response and the 500 of the top-level catch are returned as
\* built, through neither.
C17_Decorated ==
    Done =>
        /\ resp.kind \in {"next", "redirect", "csrfError", "preflight", "error"}
        /\ resp.kind \in {"next", "redirect"} => resp.through = {"cors", "csrf"}
        /\ resp.kind \in {"csrfError", "preflight", "error"} => resp.through = {}

C17_Witness ==
    /\ Done
    /\ ~IsPageRequest
    /\ req.method = "POST"
    /\ resp.kind = "next"
    /\ resp.through = {"cors", "csrf"}

\* The order of the stages of the page branch, and of the API branch
PageOrder == <<"preflight", "csrf", "i18n", "session", "gate", "decorate">>
ApiOrder == <<"preflight", "csrf", "decorate">>

IsPrefix(s, t) == Len(s) <= Len(t) /\ SubSeq(t, 1, Len(s)) = s

\* C18: the stages run in a fixed order and short-circuit: preflight, then
\* CSRF, then locale resolution, session lookup and gating; getSession is
\* called at most once per request, and not at all for a request answered by
\* the preflight response or by the CSRF rejection.
C18_FixedOrder ==
    /\ IF IsPageRequest THEN IsPrefix(stages, PageOrder)
                        ELSE IsPrefix(stages, ApiOrder)
    /\ sessionCalls <= 1
    /\ sessionCalls = Cardinality({i \in DOMAIN stages : stages[i] = "session"})
    /\ (Done /\ resp.kind = "preflight") =>
            sessionCalls = 0 /\ stages = <<"preflight">>
    /\ (Done /\ resp.kind = "csrfError") =>
            sessionCalls = 0 /\ stages = <<"preflight", "csrf">>
    /\ (Done /\ IsPageRequest /\ resp.kind \in {"next", "redirect"}) =>
            sessionCalls = 1 /\ stages = PageOrder

\* A preflight for a page is answered without a session lookup
C18_Witness ==
    /\ Done
    /\ IsPageRequest
    /\ req.method = "OPTIONS"
    /\ req.origin # NoValue
    /\ resp.kind = "preflight"
    /\ sessionCalls = 0

\* The throwing call is one the request gets to
FaultReached ==
    \/ fault.stage = "preflight"
    \/ fault.stage = "csrf" /\ ~(req.method = "OPTIONS" /\ req.origin # NoValue)
    \/ fault.stage \in {"i18n", "gate"} /\ IsPageRequest /\ PastGuards
    \/ fault.stage = "decorate" /\ PastGuards

\* C19: proxy never lets an exception out: a throw in the preflight, CSRF,
\* locale, classification or decoration stage ends in the status-500 JSON
\* response with error, message and, for an Error value only, stack.
C19_TopLevelCatch ==
    Done =>
        /\ resp # None
        /\ resp.kind # "thrown"
        /\ FaultReached =>
              /\ resp.kind = "error"
              /\ resp.status = 500
              /\ resp.body.error = "Proxy error"
              /\ resp.body.message = fault.message
              /\ (resp.body.stack # NoValue) <=> fault.isError
        /\ ~FaultReached => resp.kind # "error" /\ resp.body = NoBody

\* A value that is no Error, thrown while a page response is decorated
C19_Witness ==
    /\ Done
    /\ IsPageRequest
    /\ fault.stage = "decorate"
    /\ ~fault.isError
    /\ resp.status = 500
    /\ resp.body.message = "oops"
    /\ resp.body.stack = NoValue

\* One of the two gating redirects applies to the request
GatingRedirect ==
    \/ sessionSvc = "found" /\ OnAuthOnlyPage
    \/ NoSession /\ classify(stripLocale(req.pathname)) = "Protected"

\* C20: a page request past preflight and CSRF that triggers neither gating
\* redirect gets exactly the locale-resolution response, a locale redirect
\* for an unprefixed path and a pass-through otherwise; a gating redirect
\* replaces the locale redirect.
C20_LocaleResponseFinal ==
    (Done /\ IsPageRequest /\ PastGuards) =>
        IF ~GatingRedirect
        THEN /\ IsI18nResponse
             /\ resp.status = i18nResponse.status
             /\ IF Prefixed(req.pathname)
                THEN resp.kind = "next"
                ELSE /\ resp.kind = "redirect"
                     /\ resp.location = "/" \o ExpectedLocale \o req.pathname
        ELSE /\ resp.kind = "redirect"
             /\ resp.location \in {"/", loginUrl(req.pathname)}
             /\ resp.location # i18nResponse.location


(***************************************************************************)
(* The rate limiter under concurrent calls                                 *)
(***************************************************************************)

\* The key both callers use
ConcKey == keyOf("203.0.113.7", ConfigA)

\* Caller p holds an admitted result it has not yet taken
HoldsAdmitted(p) == call[p].pc = "done" /\ call[p].result.allowed

\* C11: the read-modify-write is not atomic.  Every admitted call read a
\* count below maxRequests, so a window with more than maxRequests admitted
\* calls is one in which two admitted calls read the same count; and such a
\* window exists (C11_Witness): two concurrent calls read the same record,
\* both return allowed: true, and the window then has more than maxRequests
\* admitted calls.
C11_OverAdmitByRace ==
    /\ \A n \in hist[ConcKey].seen : n < ConfigA.maxRequests
    /\ \A p \in Callers :
          HoldsAdmitted(p) =>
              /\ parsedCount(call[p].data) < ConfigA.maxRequests
              /\ call[p].result.current = parsedCount(call[p].data) + 1
    /\ hist[ConcKey].admitted > ConfigA.maxRequests =>
          Cardinality(hist[ConcKey].seen) < hist[ConcKey].admitted

C11_Witness ==
    /\ HoldsAdmitted("c1")
    /\ HoldsAdmitted("c2")
    /\ call["c1"].data = call["c2"].data
    /\ call["c1"].count = call["c2"].count
    /\ call["c1"].now - StartTime < WindowMs(ConfigA)
    /\ call["c2"].now - StartTime < WindowMs(ConfigA)
    /\ hist[ConcKey].admitted + 2 > ConfigA.maxRequests


(***************************************************************************)
(* The rate limiter: more claims                                           *)
(***************************************************************************)

C25_StoredCountBounded ==
    /\ \A k \in Keys :
          store[k].kind = "record" =>
              /\ store[k].count >= 1
              /\ store[k].count <= ConfigA.maxRequests
    /\ \A p \in Callers :
          call[p].pc = "write" => call[p].count <= ConfigA.maxRequests

\* More calls admitted than maxRequests, and the stored count at maxRequests
C25_Witness ==
    /\ HoldsAdmitted("c1")
    /\ HoldsAdmitted("c2")
    /\ call["c1"].now = call["c2"].now
    /\ hist[ConcKey].anchor = call["c1"].now
    /\ hist[ConcKey].admitted + 2 > ConfigA.maxRequests
    /\ store[ConcKey].count = ConfigA.maxRequests

\* C27: under concurrent calls for one key the stored firstRequestTime
\* never moves backwards: no step replaces a record by one with an older
\* firstRequestTime.
C27_WindowStartMonotone ==
    [][\A k \in Keys :
          (store[k].kind = "record" /\ store'[k].kind = "record") =>
              store'[k].firstRequestTime >= store[k].firstRequestTime]_vars


\* The calls of the first caller's key that have got as far as their result
OwnCalls == hist[ConcKey].n + (IF TheCall.pc = "done" THEN 1 ELSE 0)

Min(a, b) == IF a <= b THEN a ELSE b

\* C28: records are isolated per keyPrefix:identifier.  Every key is used
\* with one identifier and one key prefix only, and while another caller
\* makes calls for another identifier and for the same identifier under
\* another preset, the record and the results of the first caller's key are
\* what its own calls alone make them.
C28_KeysIsolated ==
    /\ \A k \in Keys : Cardinality(hist[k].callers) <= 1
    /\ \A p \in Callers :
          call[p].pc # "idle" =>
              call[p].key = call[p].config.keyPrefix \o ":" \o call[p].identifier
    /\ IF OwnCalls = 0 /\ TheCall.pc # "write"
       THEN store[ConcKey] = Absent
       ELSE store[ConcKey].kind = "record" =>
               store[ConcKey].count = Min(OwnCalls, ConfigA.maxRequests)
    /\ TheCall.pc = "done" =>
          /\ TheCall.result.allowed <=> hist[ConcKey].n < ConfigA.maxRequests
          /\ TheCall.result.current = Min(OwnCalls, ConfigA.maxRequests)
          /\ TheCall.result.limit = ConfigA.maxRequests

\* The first caller is refused at its own limit while the other caller's
\* two keys hold records of their own
C28_Witness ==
    /\ TheCall.pc = "done"
    /\ ~TheCall.result.allowed
    /\ store[keyOf(OtherIdentifier, ConfigA)].kind = "record"
    /\ store[keyOf("203.0.113.7", ConfigB)].kind = "record"
    /\ store[keyOf(OtherIdentifier, ConfigA)].count < store[ConcKey].count


(***************************************************************************)
(* The admission pipeline: the root entry, redirect chains                 *)
(***************************************************************************)

\* The stripped path is equal to or under a public entry other than /
UnderOtherPublicEntry(a) ==
    \E i \in DOMAIN publicPaths :
        /\ publicPaths[i] # "/"
        /\ (a = publicPaths[i] \/ StartsWith(a, publicPaths[i] \o "/"))

\* C26: the entry / of the public list makes only the root page public: a
\* request without a session whose stripped path is not / and is not equal
\* to or under another public entry is redirected to login, the stripped
\* path //dashboard of /en//dashboard included.
C26_RootOnlyPublic ==
    (Done /\ IsPageRequest /\ PastGuards /\ NoSession
          /\ stripLocale(req.pathname) # "/"
          /\ ~UnderOtherPublicEntry(stripLocale(req.pathname))) =>
        /\ resp.kind = "redirect"
        /\ resp.location = loginUrl(req.pathname)


\* C24: from any page path, with the session outcome and Accept-Language
\* fixed, following the redirects of proxy with GETs reaches a pass-through
\* after at most two redirects: login, home and locale redirects form no
\* loop.
C24_RedirectsEnd ==
    /\ hops <= 2
    /\ (Done /\ hops = 2) => resp.kind = "next"
    /\ (Done /\ hops >= 1) => resp.kind \in {"next", "redirect"}
    /\ (Done /\ resp.kind = "next") => Prefixed(req.pathname)

\* /login with a session: to /, from there to /en/, and /en/ is passed
\* through
C24_Witness ==
    /\ Done
    /\ hops = 2
    /\ sessionSvc = "found"
    /\ req.pathname = "/en/"
    /\ resp.kind = "next"


(***************************************************************************)
(* withCache, the Prisma client, registration: claims                      *)
(***************************************************************************)

TheWc == wc["c1"]

\* The cache held a value that parses when the call was made
HeldParseable ==
    /\ kvBound
    /\ truthy(kvGetText(TheWc.before, now))
    /\ JsonParse(TheWc.before.text).ok

HeldUnparseable ==
    /\ kvBound
    /\ truthy(kvGetText(TheWc.before, now))
    /\ ~JsonParse(TheWc.before.text).ok

\* C22: withCache calls fn zero times and returns the stored value when the
\* cache holds a value for the key that parses; in every other case (no
\* cache client, no value, a value that does not parse and is deleted first)
\* it calls fn once, returns fn's result and, with a cache client, stores it
\* under the key with the given ttl.
C22_WithCache ==
    TheWc.pc = "done" =>
        IF HeldParseable
        THEN /\ TheWc.fnCalls = 0
             /\ TheWc.ret = JsonParse(TheWc.before.text).value
             /\ TheWc.steps = <<"get">>
             /\ cacheKv = TheWc.before
        ELSE /\ TheWc.fnCalls = 1
             /\ TheWc.ret = source
             /\ IF kvBound
                THEN /\ cacheKv = Entry(JsonStringify(source),
                                        now + TheWc.ttl * MsPerSecond)
                     /\ JsonParse(cacheKv.text) = [ok |-> TRUE, value |-> TheWc.ret]
                     /\ TheWc.steps = IF HeldUnparseable
                                      THEN <<"get", "delete", "fn", "set">>
                                      ELSE <<"get", "fn", "set">>
                ELSE /\ cacheKv = TheWc.before
                     /\ TheWc.steps = <<"fn">>

\* A stored value is returned without fn at the last instant of its ttl
C22_Witness ==
    /\ TheWc.pc = "done"
    /\ HeldParseable
    /\ TheWc.fnCalls = 0
    /\ TheWc.ret = 1
    /\ source = 1
    /\ TheWc.before.expiresAt = now

\* C29: once a writer has changed the source data and deleted the key, and
\* no withCache call and no write is in flight, a withCache call made then
\* returns no value computed from the data as it was before the change.
C29_NoStaleAfterInvalidate ==
    \A p \in Callers : wc[p].pc = "done" => wc[p].ret >= wc[p].floor

\* C23: between two resets the calls with a D1 binding construct at most one
\* client and return that one; the first of them constructs one that no
\* call returned before the reset.
C23_OneClientPerReset ==
    /\ served.builtNow <= 1
    /\ Cardinality(served.instances) <= 1
    /\ served.calls >= 1 =>
          /\ served.firstBuilt
          /\ served.builtNow = 1
          /\ prismaClient # 0
          /\ served.instances = {prismaClient}
          /\ served.instances \cap served.old = {}
    /\ served.calls = 0 => prismaClient = 0

\* Two calls after a reset that followed earlier calls
C23_Witness ==
    /\ served.calls = 2
    /\ served.old # {}
    /\ served.builtNow = 1
    /\ prismaClient \notin served.old
    /\ globalPrisma # 0

\* C30: when the POST /api/register handler has finished, with a 201 or
\* with an error at any step, the user it created, if any, has its
\* credential account.
C30_UserWithAccount ==
    \A p \in Callers :
        (reg[p].pc = "done" /\ reg[p].created # 0) =>
            \E a \in accounts : a.userId = reg[p].created

====
